---- MODULE Spec2Model ----
(***************************************************************************)
(* Video-RAG assistant: the workflow supervisor, the main workflow graph,  *)
(* the session registry, the session-dependent workflow nodes and the      *)
(* background processing of an uploaded video with its workflow status.    *)
(*                                                                         *)
(* Eight specifications share the variables:                               *)
(*   Spec         uploads and their background task, which runs the main   *)
(*                workflow graph (web/app.py, agent_workflow_builder.py);  *)
(*   SpecSession  the session registry and the summary / RAG / report      *)
(*                workflow nodes called for a session;                     *)
(*   SpecApi      the upload and chat requests of the API (web/app.py);    *)
(*   SpecChunker  chunk_transcript_text on the transcripts of a bounded set*)
(*                (web/mcp_tools/audio_extractor.py);                      *)
(*   SpecIndex    index_chunks_to_qdrant and get_summary_chunks on one     *)
(*                collection (src/vector_database);                        *)
(*   SpecSummarizer  summarize_transcript_chunks on bounded chunk lists    *)
(*                (web/mcp_tools/audio_extractor.py);                      *)
(*   SpecTasks    the video-processing tasks the uploads create on the     *)
(*                event loop and their registrations;                      *)
(*   SpecReturning  the runs of Spec for one video file, every started     *)
(*                step taken.                                              *)
(* External collaborators (models, MCP services, vector store, database)   *)
(* are inputs: every call either returns one of its possible results or    *)
(* raises.                                                                 *)
(***************************************************************************)
EXTENDS Integers, Sequences, FiniteSets, TLC

VARIABLES
    session_collections, \* agent_workflow_builder.session_collections
    workflow_status,     \* web/app.py workflow_status: workflow id -> entry
    chat,                \* stored ChatMessage rows of every session, in order
    nextFileId,          \* the next UploadedFile.id the database hands out
    response,            \* what the last upload_file request returned
    pc,                  \* position of the background task
    task,                \* arguments of the running background task
    reply,               \* what the routing agent returned to supervisor_node
    goto,                \* the Command(goto=...) supervisor_node returned
    trace,               \* nodes executed in this run of the graph, in order
    routerCalls,         \* routing-model calls made in this run
    messages,            \* the conversation state of this run (message kinds)
    found,               \* what build_agent_workflow extracted and indexed
    result,              \* what process_uploaded_video returned
    registered,          \* history: the (session, collection) pairs registered so far
    lookup,              \* the last get_collection_name_for_session call
    node,                \* the last session-dependent node call and its effects
    sessions,            \* ChatSession rows of the database (their ids)
    files,               \* number of files written to the data folder
    aiCalls,             \* generate_ai_response calls made by the chat endpoint
    call,                \* the last call of a library function and its arguments
    ret,                 \* what that call returned or raised
    qdrant,              \* the points of the vector collection, in scroll order
    tasks                \* the video-processing tasks of the event loop

vars == <<session_collections, workflow_status, chat, nextFileId, response, pc,
          task, reply, goto, trace, routerCalls, messages, found, result,
          registered, lookup, node, sessions, files, aiCalls, call, ret, qdrant,
          tasks>>

apiVars == <<sessions, files, aiCalls>>
dataVars == <<call, ret, qdrant, tasks>>

uploadVars == <<workflow_status, chat, nextFileId, response, pc, task, reply,
                goto, trace, routerCalls, messages, found, result>>

(***************************************************************************)
(* Bounds.                                                                 *)
(***************************************************************************)
MaxUploads == 1          \* upload requests in one behaviour

None == "<None>"         \* Python's None
END == "__end__"         \* langgraph.graph.END

Sessions == {"default", "s1", "s2"}
UploadSessions == {"default", "s1"}    \* the sessions uploads come from in Spec

(***************************************************************************)
(* The routing reply.  The textual content of the reply is a sequence of   *)
(* tokens: FENCE (three backticks), "json" (the language tag), "\n"      *)
(* (white space), "text" (prose) and JSON-like objects {next: v} written   *)
(* with single or with double quotes; an object without a next key has     *)
(* next = Missing.                                                         *)
(***************************************************************************)
Missing == "<missing>"
Token(k, q, n) == [kind |-> k, quote |-> q, next |-> n]
FENCE == Token("fence", "-", "-")
JSONTAG == Token("json", "-", "-")
WS == Token("ws", "-", "-")
TEXT == Token("text", "-", "-")
NoObject == Token("none", "-", "-")

WorkflowNames == {"general_question_workflow", "frame_processing_workflow",
                  "audio_processing_workflow", "summary_workflow",
                  "rag_workflow", "report_workflow"}

NextValues == WorkflowNames \cup {END, "FINISH", "finish", "other_workflow", "", Missing}

Obj(q, n) == Token("obj", q, n)
Objects == {Obj(q, n) : q \in {"single", "double"}, n \in NextValues}
IsObj(t) == t.kind = "obj"

Bodies == Objects \cup {TEXT}

Wrappings(b) ==
    { <<b>>,
      <<WS, b, WS>>,
      <<FENCE, WS, b, WS, FENCE>>,
      <<FENCE, JSONTAG, WS, b, WS, FENCE>>,
      <<FENCE, JSONTAG, WS, b>>,
      <<WS, FENCE, JSONTAG, WS, b, WS, FENCE, WS>> }

Contents == UNION {Wrappings(b) : b \in Bodies}

\* kind: "raise" (agent.invoke raised), "none" (no message came back),
\* "human" (the last message is not an AIMessage), "ai_list" (an AIMessage whose
\* content is a list, not a string), "ai" (an AIMessage with textual content).
Reply(k, c) == [kind |-> k, content |-> c]
Replies == {Reply(k, <<>>) : k \in {"raise", "none", "human", "ai_list"}}
           \cup {Reply("ai", c) : c \in Contents}
NoReply == Reply("none", <<>>)

(***************************************************************************)
(* str methods on token sequences.                                         *)
(***************************************************************************)
RECURSIVE LStrip(_)
LStrip(s) == IF s # <<>> /\ Head(s) = WS THEN LStrip(Tail(s)) ELSE s

RECURSIVE RStrip(_)
RStrip(s) == IF s # <<>> /\ s[Len(s)] = WS THEN RStrip(SubSeq(s, 1, Len(s) - 1)) ELSE s

Strip(s) == RStrip(LStrip(s))

StartsWith(s, p) == Len(s) >= Len(p) /\ SubSeq(s, 1, Len(p)) = p
EndsWith(s, p) == Len(s) >= Len(p) /\ SubSeq(s, Len(s) - Len(p) + 1, Len(s)) = p
DropFirst(s, n) == SubSeq(s, n + 1, Len(s))
DropLast(s, n) == SubSeq(s, 1, Len(s) - n)

\* str.replace: every single quote becomes a double quote
ReplaceQuotesBroken(s) == s
ReplaceQuotes(s) ==
    [i \in 1..Len(s) |-> IF IsObj(s[i]) THEN Obj("double", s[i].next) ELSE s[i]]

\* the cleaning supervisor_node applies of the raw content before parsing
StripFences(raw) ==
    LET c0 == Strip(raw)
        c1 == IF StartsWith(c0, <<FENCE, JSONTAG>>) THEN DropFirst(c0, 2) ELSE c0
        c2 == IF StartsWith(c1, <<FENCE>>) THEN DropFirst(c1, 1) ELSE c1
        c3 == IF EndsWith(c2, <<FENCE>>) THEN DropLast(c2, 1) ELSE c2
    IN  Strip(c3)

CleanContent(raw) == ReplaceQuotes(StripFences(raw))

(***************************************************************************)
(* supervisor_output_parser.parse: the tolerance the output parser has  *)
(* for fences (it strips white space and backticks and looks inside a fenced   *)
(* block), the JSON decoding (double quotes only) and the validation       *)
(* against AgentSupervisorRouter.                                          *)
(***************************************************************************)
RECURSIVE LStripTicks(_)
LStripTicks(s) ==
    IF s # <<>> /\ Head(s) \in {WS, FENCE} THEN LStripTicks(Tail(s)) ELSE s

RECURSIVE RStripTicks(_)
RStripTicks(s) ==
    IF s # <<>> /\ s[Len(s)] \in {WS, FENCE}
    THEN RStripTicks(SubSeq(s, 1, Len(s) - 1)) ELSE s

StripTicks(s) == RStripTicks(LStripTicks(s))

IsJson(s) == Len(s) = 1 /\ IsObj(s[1]) /\ s[1].quote = "double"

InsideFence(s) ==
    IF \E i \in 1..Len(s) : s[i] = FENCE
    THEN LET i == CHOOSE j \in 1..Len(s) :
                      s[j] = FENCE /\ \A k \in 1..(j - 1) : s[k] # FENCE
             rest == DropFirst(s, i)
         IN  IF StartsWith(rest, <<JSONTAG>>) THEN DropFirst(rest, 1) ELSE rest
    ELSE s

\* the decoded object, or NoObject when the text is not JSON
ParseJsonMarkdown(s) ==
    IF IsJson(StripTicks(s)) THEN StripTicks(s)[1]
    ELSE IF IsJson(StripTicks(InsideFence(s))) THEN StripTicks(InsideFence(s))[1]
    ELSE NoObject

\* AgentSupervisorRouter.next: Literal[...]
RouterLiterals == {"general_question_workflow", "frame_processing_workflow",
                   "audio_processing_workflow", END}

\* the parsed .next, or None when parsing or validation raises
ParseNext(s) ==
    LET o == ParseJsonMarkdown(s)
    IN  IF o = NoObject THEN None
        ELSE IF o.next \in RouterLiterals THEN o.next
        ELSE None

\* the final routing target for a parsed next_node
Upper(n) == IF n = "finish" THEN "FINISH" ELSE n

RouteTarget(next_node) ==
    IF Upper(next_node) = "FINISH" \/ next_node = END THEN END
    ELSE IF next_node \in WorkflowNames THEN next_node
    ELSE "general_question_workflow"

\* supervisor_node: the goto of the Command it returns for a routing reply
SupervisorGotoDefaulting(r) ==
    IF r.kind = "raise" THEN END
    ELSE IF r.kind # "ai" /\ r.kind # "ai_list" THEN "general_question_workflow"
    ELSE IF r.kind = "ai_list" THEN "general_question_workflow"
    ELSE LET next_node == ParseNext(CleanContent(r.content))
         IN  IF next_node = None THEN "general_question_workflow"
             ELSE IF next_node = "" THEN END
             ELSE RouteTarget(next_node)
SupervisorGoto(r) ==
    IF r.kind = "raise" THEN END
    ELSE IF r.kind # "ai" /\ r.kind # "ai_list" THEN END
    ELSE IF r.kind = "ai_list" THEN END
    ELSE LET next_node == ParseNext(CleanContent(r.content))
         IN  IF next_node = None THEN END
             ELSE IF next_node = "" THEN END
             ELSE RouteTarget(next_node)

(***************************************************************************)
(* Uploads (web/app.py upload_file).                                       *)
(***************************************************************************)
Filenames == {"", "lecture.mp4", "talk.mp3", "notes.txt"}
Timestamps == {"t1", "t2"}

\* Path(file.filename).suffix.lower()
Suffix(f) ==
    CASE f = "lecture.mp4" -> ".mp4"
      [] f = "talk.mp3" -> ".mp3"
      [] f = "notes.txt" -> ".txt"
      [] OTHER -> ""

ALLOWED_FILE_EXTENSIONS == {".mp3", ".mp4"}

\* safe_filename = timestamp + "_" + filename
SafeFilename(ts, f) == [ts |-> ts, name |-> f]
NoFile == SafeFilename("-", "")

\* os.path.splitext(os.path.basename(video_file))[0] of data/<safe_filename>
VideoNameWithoutTimestamp(path) == IF path.name = "lecture.mp4" THEN "lecture" ELSE ""
VideoName(path) ==
    CASE path.ts = "t1" /\ path.name = "lecture.mp4" -> "t1_lecture"
      [] path.ts = "t2" /\ path.name = "lecture.mp4" -> "t2_lecture"
      [] OTHER -> ""

Collections == {"t1_lecture", "t2_lecture"}

\* workflow_id = "workflow_" + session_id + "_" + uploaded_file.id
WorkflowId(s, id) == <<s, id>>
NoWorkflow == <<"-", 0>>

Text(t, detail) == <<t, detail>>

StatusEntry(st, pr, msg, step, fname) ==
    [status |-> st, progress |-> pr, message |-> msg, current_step |-> step,
     file_name |-> fname]

\* dict.update of the keys given
UpdateProgressRounded(e, pr, msg, step) ==
    [e EXCEPT !.progress = IF pr >= 90 THEN 100 ELSE pr, !.message = msg,
              !.current_step = step]
UpdateProgress(e, pr, msg, step) ==
    [e EXCEPT !.progress = pr, !.message = msg, !.current_step = step]
UpdateStatus(e, st, pr, msg, step) ==
    [e EXCEPT !.status = st, !.progress = pr, !.message = msg, !.current_step = step]

\* get_workflow_status: the entry of a known id, not_found otherwise
StatusResponse(ws, w) ==
    IF w \in DOMAIN ws
    THEN [status |-> ws[w].status, progress |-> ws[w].progress]
    ELSE [status |-> "not_found", progress |-> 0]
GetWorkflowStatus(w) == StatusResponse(workflow_status, w)

ChatRow(type, content) == [message_type |-> type, content |-> content]

\* FileUploadResponse (code 200) or the HTTPException raised (code 400)
Response(code, f, wid) ==
    [code |-> code, filename |-> f, workflow_id |-> wid, message |-> ""]

NoTask == [workflow_id |-> NoWorkflow, session_id |-> "-", file_path |-> NoFile]
NoFound == [frame_groups |-> FALSE, transcript |-> FALSE, video_name |-> None,
            txt_indexed |-> FALSE, img_indexed |-> FALSE,
            txt_collection |-> None, img_collection |-> None]
NoResult == [success |-> FALSE, error |-> None]
NoLookup == [session_id |-> "-", value |-> None]
NoNode == [kind |-> "-", session_id |-> "-", had_collection |-> FALSE,
           appended |-> <<>>, retriever |-> 0, llm |-> 0, pdf |-> 0, raised |-> FALSE]

NoCall == [fn |-> "-"]
NoRet == [raised |-> FALSE]

Init ==
    /\ session_collections = [s \in Sessions |-> None]
    /\ workflow_status = <<>>
    /\ chat = [s \in Sessions |-> <<>>]
    /\ nextFileId = 1
    /\ response = Response(0, "", NoWorkflow)
    /\ pc = "idle"
    /\ task = NoTask
    /\ reply = NoReply
    /\ goto = "-"
    /\ trace = <<>>
    /\ routerCalls = 0
    /\ messages = <<>>
    /\ found = NoFound
    /\ result = NoResult
    /\ registered = {}
    /\ lookup = NoLookup
    /\ node = NoNode
    /\ sessions = {}
    /\ files = 0
    /\ aiCalls = 0
    /\ call = NoCall
    /\ ret = NoRet
    /\ qdrant = <<>>
    /\ tasks = <<>>

\* outcomes of the block of upload_file that starts the workflow: the import of
\* process_uploaded_video raises before anything is started, or the task is
\* created and the first or the second store_message raises, or all of it works
StoreOutcomes == {"ok", "start_fails", "first_fails", "second_fails"}

\* workflow_status[workflow_id] = {...}, before the task is created
InitialStatusDeferred(ws, wid, f) == ws
InitialStatus(ws, wid, f) ==
    (wid :> StatusEntry("processing", 0, Text("Initializing workflow...", ""),
                        "Starting", f)) @@ ws

UploadStored(s, path, wid, st) ==
    CASE st = "ok" ->
            chat[s] \o <<ChatRow("user", Text("Please process this video file", path.name)),
                         ChatRow("ai", Text("Processing video", path.name))>>
      [] st = "second_fails" ->
            Append(chat[s], ChatRow("user", Text("Please process this video file", path.name)))
      [] OTHER -> chat[s]

UploadFile(s, f, ts, st) ==
    /\ pc \in {"idle", "done"}
    /\ nextFileId <= MaxUploads
    /\ IF f = "" \/ Suffix(f) \notin ALLOWED_FILE_EXTENSIONS
       THEN /\ response' = Response(400, "", NoWorkflow)
            /\ UNCHANGED <<workflow_status, chat, nextFileId, pc, task, reply, goto,
                           trace, routerCalls, messages, found, result, sessions, files>>
       ELSE /\ nextFileId' = nextFileId + 1
            /\ sessions' = sessions \cup {s}
            /\ files' = files + 1
            /\ IF Suffix(f) = ".mp4" /\ st # "start_fails"
               THEN LET wid == WorkflowId(s, nextFileId)
                        path == SafeFilename(ts, f)
                    IN  /\ workflow_status' = InitialStatus(workflow_status, wid, f)
                        /\ task' = [workflow_id |-> wid, session_id |-> s,
                                    file_path |-> path]
                        /\ chat' = [chat EXCEPT ![s] = UploadStored(s, path, wid, st)]
                        /\ response' = Response(200, f, wid)
                        /\ pc' = "bg_start"
                        /\ reply' = NoReply
                        /\ goto' = "-"
                        /\ trace' = <<>>
                        /\ routerCalls' = 0
                        /\ messages' = <<>>
                        /\ found' = NoFound
                        /\ result' = NoResult
               ELSE /\ response' = Response(200, f, NoWorkflow)
                    /\ UNCHANGED <<workflow_status, chat, pc, task, reply, goto, trace,
                                   routerCalls, messages, found, result>>
    /\ UNCHANGED <<session_collections, registered, lookup, node, aiCalls, dataVars>>

(***************************************************************************)
(* The background task (web/app.py process_uploaded_video_with_progress).  *)
(***************************************************************************)
SetEntry(e) == workflow_status' = [workflow_status EXCEPT ![task.workflow_id] = e]
Entry == workflow_status[task.workflow_id]

BgInitialization ==
    /\ pc = "bg_start"
    /\ SetEntry(UpdateProgress(Entry, 10, Text("Initializing video processing...", ""),
                               "Initialization"))
    /\ pc' = "bg_analysis"
    /\ UNCHANGED <<session_collections, chat, nextFileId, response, task, reply, goto,
                   trace, routerCalls, messages, found, result, registered, lookup, node,
                   apiVars, dataVars>>

BgAnalysis ==
    /\ pc = "bg_analysis"
    /\ SetEntry(UpdateProgress(Entry, 30, Text("Analyzing video content...", ""),
                               "Analysis"))
    /\ pc' = "process_uploaded_video"
    /\ UNCHANGED <<session_collections, chat, nextFileId, response, task, reply, goto,
                   trace, routerCalls, messages, found, result, registered, lookup, node,
                   apiVars, dataVars>>

\* The session id process_uploaded_video receives: the call passes the file path
\* only, so the parameter takes its default.
SessionArgument(t) == "default"

\* The session build_agent_workflow runs for in the current background task
RunSession == SessionArgument(task)

(***************************************************************************)
(* process_uploaded_video and the set-up of build_agent_workflow: models   *)
(* and clients are fetched and the agents and graphs are built.  Any of it *)
(* may raise (models not loaded, a client raising, a constructor raising:  *)
(* ExtractVideoFramesAgent is built from one argument while its __init__   *)
(* declares two); the exception is caught by process_uploaded_video, which *)
(* returns a failure.  The outcome of the set-up is an input here.         *)
(***************************************************************************)
SetUpOutcomes == {"ok", "models_not_loaded", "constructor_raises"}

\* str(e) of the exception the set-up raised
SetUpError(out) == IF out = "models_not_loaded" THEN "Models not loaded" ELSE "TypeError"

BuildAgentWorkflow(out) ==
    /\ pc = "process_uploaded_video"
    /\ IF out = "ok"
       THEN /\ messages' = <<"user">>
            /\ pc' = "supervisor"
            /\ UNCHANGED result
       ELSE /\ result' = [success |-> FALSE, error |-> SetUpError(out)]
            /\ pc' = "bg_finalization"
            /\ UNCHANGED messages
    /\ UNCHANGED <<session_collections, workflow_status, chat, nextFileId, response,
                   task, reply, goto, trace, routerCalls, found, registered, lookup, node,
                   apiVars, dataVars>>

(***************************************************************************)
(* The main graph (build_agent_workflow).  A node that returns             *)
(* Command(goto=g) is followed by g and by the targets of its static       *)
(* edges; a node with neither ends the run.  frame_processing_workflow and *)
(* audio_processing_workflow are compiled subgraphs whose own              *)
(* Command(goto=END) ends the subgraph only.                               *)
(***************************************************************************)
START == "__start__"

MainEdgesLooping ==
    {<<START, "supervisor">>,
     <<"frame_processing_workflow", "audio_processing_workflow">>,
     <<"general_question_workflow", "supervisor">>,
     <<"audio_processing_workflow", "supervisor">>}
MainEdges ==
    {<<START, "supervisor">>,
     <<"frame_processing_workflow", "audio_processing_workflow">>}

\* audio_processing_agent_graph
AudioEdgesWithoutTranscription ==
    {<<START, "extract_audio_from_video">>, <<"transcript_audio_node", END>>}
AudioEdges ==
    {<<START, "extract_audio_from_video">>,
     <<"extract_audio_from_video", "transcript_audio_node">>,
     <<"transcript_audio_node", END>>}

Targets(edges, n, g) ==
    ({e[2] : e \in {d \in edges : d[1] = n}} \cup {g}) \ {END, "-"}

\* where the run continues after node n returned Command(goto=g): the next node,
\* or "extract_results" when the graph has ended
After(edges, n, g) ==
    IF Targets(edges, n, g) = {} THEN "extract_results"
    ELSE CHOOSE t \in Targets(edges, n, g) : TRUE

MaxTrace == 6   \* nodes recorded in one run

Executed(n) == Cardinality({i \in 1..Len(trace) : trace[i] = n})

\* supervisor_node.  It returns a Command without an update.
SupervisorNode(r) ==
    /\ pc = "supervisor"
    /\ Len(trace) < MaxTrace
    /\ reply' = r
    /\ routerCalls' = routerCalls + 1
    /\ goto' = SupervisorGoto(r)
    /\ trace' = Append(trace, "supervisor")
    /\ pc' = After(MainEdges, "supervisor", SupervisorGoto(r))
    /\ UNCHANGED <<session_collections, workflow_status, chat, nextFileId, response,
                   task, messages, found, result, registered, lookup, node,
                   apiVars, dataVars>>

\* general_question_node: the answer, or an apology when nothing came back or the
\* agent raised
GeneralOutcomes == {"answer", "no_message", "raise"}
GeneralMessage(out) == IF out = "answer" THEN "answer" ELSE "error"

GeneralQuestionNode(out) ==
    /\ pc = "general_question_workflow"
    /\ Len(trace) < MaxTrace
    /\ messages' = Append(messages, GeneralMessage(out))
    /\ trace' = Append(trace, "general_question_workflow")
    /\ pc' = After(MainEdges, "general_question_workflow", END)
    /\ UNCHANGED <<session_collections, workflow_status, chat, nextFileId, response,
                   task, reply, goto, routerCalls, found, result, registered, lookup, node,
                   apiVars, dataVars>>

\* extract_frames_node: every failure appends an error text; success appends the
\* payload with the group folders get_frame_groups found (possibly none)
FrameOutcomes == {"no_ai_message", "unparsable", "empty_path", "missing_file",
                  "mkdir_error", "mcp_error", "group_error", "unexpected",
                  "no_groups", "ok"}
FrameMessage(out) ==
    CASE out = "ok" -> "frame_payload"
      [] out = "no_groups" -> "frame_payload_empty"
      [] OTHER -> "error"

ExtractFramesNode(out) ==
    /\ pc = "frame_processing_workflow"
    /\ Len(trace) < MaxTrace
    /\ messages' = Append(messages, FrameMessage(out))
    /\ trace' = Append(trace, "extract_frames_from_video")
    /\ pc' = After(MainEdges, "frame_processing_workflow", END)
    /\ UNCHANGED <<session_collections, workflow_status, chat, nextFileId, response,
                   task, reply, goto, routerCalls, found, result, registered, lookup, node,
                   apiVars, dataVars>>

\* extract_audio_node
AudioOutcomes == {"no_ai_message", "unparsable", "empty_path", "missing_file",
                  "mkdir_error", "mcp_error", "no_result", "unexpected", "ok"}
AudioMessage(out) == IF out = "ok" THEN "audio_payload" ELSE "error"
AudioGoto(out) == IF out = "ok" THEN "transcript_audio_node" ELSE END

ExtractAudioNode(out) ==
    /\ pc = "audio_processing_workflow"
    /\ Len(trace) < MaxTrace
    /\ messages' = Append(messages, AudioMessage(out))
    /\ trace' = Append(trace, "extract_audio_from_video")
    /\ pc' = LET n == After(AudioEdges, "extract_audio_from_video", AudioGoto(out))
             IN  IF n = "extract_results"
                 THEN After(MainEdges, "audio_processing_workflow", END)
                 ELSE n
    /\ UNCHANGED <<session_collections, workflow_status, chat, nextFileId, response,
                   task, reply, goto, routerCalls, found, result, registered, lookup, node,
                   apiVars, dataVars>>

\* transcribe_audio_node reads the first element of the last message content: on
\* the payload of extract_audio_node it transcribes; on an error text the read
\* raises and the node appends its own error text
TranscribeOutcomes == {"mkdir_error", "mcp_error", "no_result", "unexpected", "ok"}
TranscribeMessage(last, out) ==
    IF last = "audio_payload" /\ out = "ok" THEN "transcript_payload" ELSE "error"

TranscribeAudioNode(out) ==
    /\ pc = "transcript_audio_node"
    /\ Len(trace) < MaxTrace
    /\ messages' = Append(messages, TranscribeMessage(messages[Len(messages)], out))
    /\ trace' = Append(trace, "transcript_audio_node")
    /\ pc' = LET n == After(AudioEdges, "transcript_audio_node", END)
             IN  IF n = "extract_results"
                 THEN After(MainEdges, "audio_processing_workflow", END)
                 ELSE n
    /\ UNCHANGED <<session_collections, workflow_status, chat, nextFileId, response,
                   task, reply, goto, routerCalls, found, result, registered, lookup, node,
                   apiVars, dataVars>>

(***************************************************************************)
(* build_agent_workflow after the graph has ended: the newest frame and    *)
(* transcript payloads are looked up in the conversation; the transcript   *)
(* is chunked, summarized and indexed and the collection registered; the   *)
(* frame groups are summarized and indexed.  A failure of either part is   *)
(* logged and the function still returns the result of the graph.          *)
(***************************************************************************)
Has(kind) == \E i \in 1..Len(messages) : messages[i] = kind

ExtractWorkflowResults ==
    /\ pc = "extract_results"
    /\ found' = [frame_groups |-> Has("frame_payload"),
                 transcript |-> Has("transcript_payload"),
                 video_name |-> IF Has("transcript_payload")
                                THEN VideoName(task.file_path) ELSE None,
                 txt_indexed |-> FALSE, img_indexed |-> FALSE,
                 txt_collection |-> None, img_collection |-> None]
    /\ reply' = NoReply      \* a local of supervisor_node, gone with the graph run
    /\ pc' = "process_transcript"
    /\ UNCHANGED <<session_collections, workflow_status, chat, nextFileId, response,
                   task, goto, trace, routerCalls, messages, result, registered, lookup, node,
                   apiVars, dataVars>>

Truthy(v) == v # None /\ v # ""

TranscriptOutcomes == {"chunk_error", "summarize_error", "index_error", "ok"}

\* collection_name = video_name
CollectionName(f) == f.video_name

\* set_collection_name_for_session
SetCollection(reg, s, c) == [reg EXCEPT ![s] = c]

\* The transcript part: chunk, summarize, index, then register the collection
\* under the session id build_agent_workflow was given.  Any step may raise
\* (index_chunks_to_qdrant is called with a store_type keyword its definition
\* does not declare); the exception is logged and nothing is registered.
TranscriptIndexed(out) == out = "ok"

\* set_collection_name_for_session is the last statement of the try block: it
\* runs when none of the calls before it has raised
RegistersBeforeIndexing(out) == out \in {"index_error", "ok"}
Registers(out) == out = "ok"

ProcessTranscript(out) ==
    /\ pc = "process_transcript"
    /\ IF Truthy(found.video_name) /\ found.transcript
       THEN /\ found' = [found EXCEPT !.txt_indexed = TranscriptIndexed(out),
                                       !.txt_collection = IF TranscriptIndexed(out)
                                                          THEN CollectionName(found)
                                                          ELSE None]
            /\ IF Registers(out)
               THEN /\ session_collections' =
                           SetCollection(session_collections, RunSession,
                                         CollectionName(found))
                    /\ registered' = registered \cup {<<RunSession, CollectionName(found)>>}
               ELSE UNCHANGED <<session_collections, registered>>
       ELSE UNCHANGED <<found, session_collections, registered>>
    /\ pc' = "process_frames"
    /\ UNCHANGED <<workflow_status, chat, nextFileId, response, task, reply, goto,
                   trace, routerCalls, messages, result, lookup, node,
                   apiVars, dataVars>>

FrameGroupOutcomes == {"summarize_error", "index_error", "ok"}

\* the last step of build_agent_workflow; process_uploaded_video wraps the
\* returned result into a success
ProcessFrameGroups(out) ==
    /\ pc = "process_frames"
    /\ found' = LET indexed == found.frame_groups /\ Truthy(found.video_name) /\ out = "ok"
                 IN  [found EXCEPT !.img_indexed = indexed,
                                   !.img_collection = IF indexed THEN found.video_name
                                                      ELSE None]
    /\ result' = [success |-> TRUE, error |-> None]
    /\ pc' = "bg_finalization"
    /\ UNCHANGED <<session_collections, workflow_status, chat, nextFileId, response,
                   task, reply, goto, trace, routerCalls, messages, registered, lookup, node,
                   apiVars, dataVars>>

(***************************************************************************)
(* process_uploaded_video_with_progress after process_uploaded_video has   *)
(* returned.                                                               *)
(***************************************************************************)
BgFinalization ==
    /\ pc = "bg_finalization"
    /\ SetEntry(UpdateProgress(Entry, 90, Text("Finalizing results...", ""),
                               "Finalization"))
    /\ pc' = "bg_outcome"
    /\ UNCHANGED <<session_collections, chat, nextFileId, response, task, reply, goto,
                   trace, routerCalls, messages, found, result, registered, lookup, node,
                   apiVars, dataVars>>

BgOutcome ==
    /\ pc = "bg_outcome"
    /\ IF result.success
       THEN SetEntry(UpdateStatus(Entry, "completed", 100,
                                  Text("Video processing completed successfully!", ""),
                                  "Completed"))
       ELSE SetEntry(UpdateStatus(Entry, "failed", 100,
                                  Text("Processing failed", result.error), "Failed"))
    /\ pc' = "store_notice"
    /\ UNCHANGED <<session_collections, chat, nextFileId, response, task, reply, goto,
                   trace, routerCalls, messages, found, result, registered, lookup, node,
                   apiVars, dataVars>>

Notice ==
    IF result.success
    THEN ChatRow("ai", Text("Video processing complete", Entry.file_name))
    ELSE ChatRow("ai", Text("Video processing failed", result.error))

\* await store_message(...) of the completion or failure notice
StoreNotice(ok) ==
    /\ pc = "store_notice"
    /\ IF ok
       THEN /\ chat' = [chat EXCEPT ![task.session_id] = Append(@, Notice)]
            /\ pc' = "done"
       ELSE /\ pc' = "bg_except"
            /\ UNCHANGED chat
    /\ UNCHANGED <<session_collections, workflow_status, nextFileId, response, task,
                   reply, goto, trace, routerCalls, messages, found, result, registered, lookup, node,
                   apiVars, dataVars>>

\* the except branch: the status is overwritten and the error notice stored, if
\* the store works this time
BgExcept(ok) ==
    /\ pc = "bg_except"
    /\ SetEntry(UpdateStatus(Entry, "failed", 100,
                             Text("Processing error", "store_message error"), "Error"))
    /\ chat' = IF ok
               THEN [chat EXCEPT ![task.session_id] =
                         Append(@, ChatRow("ai", Text("Video processing encountered an error",
                                                      "store_message error")))]
               ELSE chat
    /\ pc' = "done"
    /\ UNCHANGED <<session_collections, nextFileId, response, task, reply, goto, trace,
                   routerCalls, messages, found, result, registered, lookup, node,
                   apiVars, dataVars>>

Next ==
    \/ \E s \in UploadSessions, f \in Filenames, ts \in Timestamps, st \in StoreOutcomes :
           UploadFile(s, f, ts, st)
    \/ BgInitialization
    \/ BgAnalysis
    \/ \E out \in SetUpOutcomes : BuildAgentWorkflow(out)
    \/ \E r \in Replies : SupervisorNode(r)
    \/ \E out \in GeneralOutcomes : GeneralQuestionNode(out)
    \/ \E out \in FrameOutcomes : ExtractFramesNode(out)
    \/ \E out \in AudioOutcomes : ExtractAudioNode(out)
    \/ \E out \in TranscribeOutcomes : TranscribeAudioNode(out)
    \/ ExtractWorkflowResults
    \/ \E out \in TranscriptOutcomes : ProcessTranscript(out)
    \/ \E out \in FrameGroupOutcomes : ProcessFrameGroups(out)
    \/ BgFinalization
    \/ BgOutcome
    \/ \E ok \in BOOLEAN : StoreNotice(ok)
    \/ \E ok \in BOOLEAN : BgExcept(ok)

Spec == Init /\ [][Next]_vars

(***************************************************************************)
(* The session registry and the session-dependent workflow nodes           *)
(* (agent_workflow_builder.py), called for a session on a conversation     *)
(* holding the user request.                                               *)
(***************************************************************************)
\* session_collections.get(session_id)
GetCollectionAny(reg, s) ==
    IF \E t \in Sessions : reg[t] # None
    THEN reg[CHOOSE t \in Sessions : reg[t] # None]
    ELSE None
GetCollection(reg, s) == reg[s]

SetCollectionNameForSession(s, c) ==
    /\ session_collections' = SetCollection(session_collections, s, c)
    /\ registered' = registered \cup {<<s, c>>}
    /\ UNCHANGED <<uploadVars, lookup, node,
                   apiVars, dataVars>>

\* lookup and node describe the latest call: a lookup clears node and a node
\* call clears lookup
GetCollectionNameForSession(s) ==
    /\ lookup' = [session_id |-> s, value |-> GetCollection(session_collections, s)]
    /\ node' = NoNode
    /\ UNCHANGED <<uploadVars, apiVars, dataVars, session_collections, registered>>

\* "if not collection_name": the node answers that no video has been processed
NoVideoGuardSkippedInReport(kind, c) == kind # "report" /\ ~Truthy(c)
NoVideoGuard(kind, c) == ~Truthy(c)

HadCollection(s) == \E c \in Collections : <<s, c>> \in registered

NodeResult(kind, s, appended, retriever, llm, pdf, raised) ==
    [kind |-> kind, session_id |-> s, had_collection |-> HadCollection(s),
     appended |-> appended, retriever |-> retriever, llm |-> llm, pdf |-> pdf,
     raised |-> raised]

\* model_manager.is_loaded, get_qwen_chat_model(), get_qdrant_client()
SetupOutcomes == {"ok", "not_loaded", "client_raises"}
ChunkOutcomes == {"raise", "empty", "some"}
AgentOutcomes == {"raise", "invalid", "no_content", "ok"}

\* SummaryAgent.summary_node on the conversation [user query]: the message it
\* appends and the model calls it makes (it always calls get_summary_chunks)
SummaryMessage(chunks, agent) ==
    CASE chunks = "raise" -> "error"
      [] chunks = "empty" -> "nothing_to_summarize"
      [] agent = "raise" -> "error"
      [] agent = "ok" -> "summary"
      [] OTHER -> "apology"
SummaryLlmCalls(chunks) == IF chunks = "some" THEN 1 ELSE 0

\* summary_workflow_node -> invoke_summary_agent; the result of the inner graph
\* (the query and the reply) is returned as the node's update
SummaryWorkflowNode(s) ==
    /\ IF NoVideoGuard("summary", GetCollection(session_collections, s))
       THEN node' = NodeResult("summary", s, <<"no_video">>, 0, 0, 0, FALSE)
       ELSE \E setup \in SetupOutcomes :
              IF setup # "ok"
              THEN node' = NodeResult("summary", s, <<>>, 0, 0, 0, TRUE)
              ELSE \E chunks \in ChunkOutcomes, agent \in AgentOutcomes :
                     node' = NodeResult("summary", s,
                                        <<"user", SummaryMessage(chunks, agent)>>,
                                        1, SummaryLlmCalls(chunks), 0, FALSE)
    /\ lookup' = NoLookup
    /\ UNCHANGED <<uploadVars, apiVars, dataVars, session_collections, registered>>

\* RAGAgent.rag_node: the stage that fails, if any.  query_rag_points and
\* build_doc_context log their exception and return None, on which the
\* context stage of rag_node raises; a reply that rag_output_parser rejects
\* raises inside generate_rag_response, after the model was called
RagStages == {"none", "embedding_model", "query", "context", "generation_model",
              "generate", "parse", "empty_answer"}
RagMessage(stage) ==
    CASE stage = "none" -> "answer"
      [] stage = "empty_answer" -> "apology"
      [] OTHER -> "error"
RagRetrieverCalls(stage) == IF stage = "embedding_model" THEN 0 ELSE 1
RagLlmCallsAfterFailure(stage) == 1
RagLlmCalls(stage) == IF stage \in {"none", "generate", "parse", "empty_answer"} THEN 1 ELSE 0

\* rag_workflow_node; get_qdrant_client() is called outside any try.  The
\* result keeps the stage at which rag_node failed
RagWorkflowNode(s) ==
    /\ IF NoVideoGuard("rag", GetCollection(session_collections, s))
       THEN node' = NodeResult("rag", s, <<"no_video">>, 0, 0, 0, FALSE)
       ELSE \E setup \in SetupOutcomes \ {"not_loaded"} :
              IF setup # "ok"
              THEN node' = NodeResult("rag", s, <<>>, 0, 0, 0, TRUE)
              ELSE \E stage \in RagStages :
                     node' = [stage |-> stage]
                             @@ NodeResult("rag", s, <<RagMessage(stage)>>,
                                           RagRetrieverCalls(stage), RagLlmCalls(stage),
                                           0, FALSE)
    /\ lookup' = NoLookup
    /\ UNCHANGED <<uploadVars, apiVars, dataVars, session_collections, registered>>

\* ReportAgent.report_node on the conversation the summary step returned: the
\* newest AI message is taken as the summary whatever it says
MarkdownOutcomes == {"ok", "none"}
PdfOutcomes == {"ok", "fail", "unexpected"}
ReportMessage(markdown, pdf) ==
    CASE markdown = "none" -> "error"
      [] pdf = "ok" -> "report"
      [] pdf = "fail" -> "error"
      [] OTHER -> "error_with_exception_text"
ReportPdfFiles(markdown, pdf) == IF markdown = "ok" /\ pdf = "ok" THEN 1 ELSE 0

\* report_workflow_node: the summary step, then the report step
ReportWorkflowNode(s) ==
    /\ IF NoVideoGuard("report", GetCollection(session_collections, s))
       THEN node' = NodeResult("report", s, <<"no_video">>, 0, 0, 0, FALSE)
       ELSE \E setup \in SetupOutcomes :
              IF setup # "ok"
              THEN node' = NodeResult("report", s, <<>>, 0, 0, 0, TRUE)
              ELSE \E chunks \in ChunkOutcomes, agent \in AgentOutcomes,
                      markdown \in MarkdownOutcomes, pdf \in PdfOutcomes :
                     node' = NodeResult("report", s,
                                        <<"user", SummaryMessage(chunks, agent),
                                          ReportMessage(markdown, pdf)>>,
                                        1, SummaryLlmCalls(chunks) + 1,
                                        ReportPdfFiles(markdown, pdf), FALSE)
    /\ lookup' = NoLookup
    /\ UNCHANGED <<uploadVars, apiVars, dataVars, session_collections, registered>>

NextSession ==
    \/ \E s \in Sessions, c \in Collections : SetCollectionNameForSession(s, c)
    \/ \E s \in Sessions : GetCollectionNameForSession(s)
    \/ \E s \in Sessions : SummaryWorkflowNode(s)
    \/ \E s \in Sessions : RagWorkflowNode(s)
    \/ \E s \in Sessions : ReportWorkflowNode(s)

SpecSession == Init /\ [][NextSession]_vars

(***************************************************************************)
(* The chat endpoint (web/app.py chat) and, with upload_file, the requests *)
(* of the API.                                                             *)
(***************************************************************************)
MaxRows == 2      \* rows of one session up to which chat messages are stored

Messages == {"", " ", "  ", "hi", " hi "}

\* str.strip on the messages above
StripText(m) == IF m \in {"", " ", "  "} THEN "" ELSE "hi"

\* not request.message.strip()
IsBlankEmptyOnly(m) == m = ""
IsBlank(m) == StripText(m) = ""

\* get_or_create_session or the first store_message raises, or the reply
\* generation raises (an apology is stored), or the second store_message raises
ChatOutcomes == {"ok", "session_fails", "store_user_fails", "generation_fails",
                 "store_ai_fails"}

\* ChatResponse (code 200) or the HTTPException raised (400, 500)
ChatResponse(code, m) ==
    [code |-> code, filename |-> "", workflow_id |-> NoWorkflow, message |-> m]

Chat(s, m, out) ==
    /\ IsBlank(m) \/ Len(chat[s]) + 2 <= MaxRows
    /\ IF IsBlank(m)
       THEN /\ response' = ChatResponse(400, "")
            /\ UNCHANGED <<chat, sessions, aiCalls>>
       ELSE IF out = "session_fails"
       THEN /\ response' = ChatResponse(500, "")
            /\ UNCHANGED <<chat, sessions, aiCalls>>
       ELSE /\ sessions' = sessions \cup {s}
            /\ IF out = "store_user_fails"
               THEN /\ response' = ChatResponse(500, "")
                    /\ UNCHANGED <<chat, aiCalls>>
               ELSE /\ aiCalls' = aiCalls + 1
                    /\ IF out = "store_ai_fails"
                       THEN /\ response' = ChatResponse(500, "")
                            /\ chat' = [chat EXCEPT ![s] =
                                           Append(@, ChatRow("user", Text("chat", m)))]
                       ELSE /\ response' = ChatResponse(200, m)
                            /\ chat' = [chat EXCEPT ![s] =
                                           @ \o <<ChatRow("user", Text("chat", m)),
                                                  ChatRow("ai", Text(IF out = "ok" THEN "reply"
                                                                     ELSE "apology", m))>>]
    /\ UNCHANGED <<session_collections, workflow_status, nextFileId, pc, task, reply,
                   goto, trace, routerCalls, messages, found, result, registered,
                   lookup, node, files, dataVars>>

NextApi ==
    \/ \E s \in UploadSessions, f \in Filenames, ts \in Timestamps, st \in StoreOutcomes :
           UploadFile(s, f, ts, st)
    \/ \E s \in UploadSessions, m \in Messages, out \in ChatOutcomes : Chat(s, m, out)

SpecApi == Init /\ [][NextApi]_vars

(***************************************************************************)
(* chunk_transcript_text (web/mcp_tools/audio_extractor.py).  A text is a  *)
(* sequence of pieces; a piece is a run of characters of which the length  *)
(* (len) and the number of tokens the tokenizer makes of it are known.  A  *)
(* run of ordinary prose has more characters than tokens; a run of rare    *)
(* characters, which the byte-level tokenizer encodes byte by byte, has    *)
(* more tokens than characters.  A timeframe key a-bs is the record of its *)
(* two numbers.                                                            *)
(***************************************************************************)
MaxKeys == 3       \* timeframe keys of the transcripts
MaxParts == 3      \* parts the splitter makes of one oversized segment

SP == "sp"         \* one white space character
PART == "part"     \* a part the splitter has cut out of an oversized text

\* len(piece)
Chars(p) ==
    CASE p = SP -> 1
      [] p = "Hello" -> 5
      [] p = "world" -> 5
      [] p = "test" -> 4
      [] p = "rare" -> 30
      [] p = "exact100" -> 400
      [] p = "exact300" -> 1200

\* len(tokenizer.encode(piece)); the white space between two words is encoded
\* with the word that follows it
Tokens(p) ==
    CASE p = SP -> 0
      [] p = "Hello" -> 1
      [] p = "world" -> 1
      [] p = "test" -> 1
      [] p = "rare" -> 60
      [] p = "exact100" -> 100
      [] p = "exact300" -> 300

\* the segment texts of the transcripts
Texts == {<<SP>>, <<"Hello">>, <<"world", SP, "test">>, <<SP, "rare", SP>>,
          <<"exact100">>, <<"exact300">>}

RECURSIVE CharLen(_)
CharLen(t) == IF t = <<>> THEN 0 ELSE Chars(Head(t)) + CharLen(Tail(t))

RECURSIVE CountTokens(_)
CountTokens(t) == IF t = <<>> THEN 0 ELSE Tokens(Head(t)) + CountTokens(Tail(t))

RECURSIVE LStripSpaces(_)
LStripSpaces(t) == IF t # <<>> /\ Head(t) = SP THEN LStripSpaces(Tail(t)) ELSE t

RECURSIVE RStripSpaces(_)
RStripSpaces(t) ==
    IF t # <<>> /\ t[Len(t)] = SP THEN RStripSpaces(SubSeq(t, 1, Len(t) - 1)) ELSE t

\* str.strip on a text
StripSpaces(t) == RStripSpaces(LStripSpaces(t))

TimeframeKey(a, b) == [a |-> a, b |-> b]
Keys == {TimeframeKey(5 * i, 5 * i + 5) : i \in 0..(MaxKeys - 1)}
ParseTimeframe(k) == [start |-> k.a, end |-> k.b]

MaxChunkTokenSizes == {50, 100, 300}
ChunkOverlap == 100

NoTime == 0 - 1    \* None as the start or the end of a chunk

\* a group id: the key of a whole segment (part 0) or key#part<i>
Group(k, i) == [key |-> k, part |-> i]

EmptyChunk == [text |-> <<>>, groups |-> <<>>, start |-> NoTime, end |-> NoTime]

\* the chunk appended to chunks for the current chunk
Flushed(c) ==
    [start |-> c.start, end |-> c.end, groups |-> c.groups, text |-> StripSpaces(c.text)]

\* the (timeframe, start, end, text) tuples of the segments with text
RECURSIVE TranscriptText(_)
TranscriptText(items) ==
    IF items = <<>> THEN <<>>
    ELSE LET it == items[Len(items)]
             tf == ParseTimeframe(it.key)
             rest == TranscriptText(SubSeq(items, 1, Len(items) - 1))
         IN  IF StripSpaces(it.text) # <<>>
             THEN Append(rest, [key |-> it.key, start |-> tf.start, end |-> tf.end,
                                text |-> StripSpaces(it.text)])
             ELSE rest

\* list.sort(key = start): stable
InsertByStart(sorted, x) ==
    LET n == Cardinality({i \in 1..Len(sorted) : sorted[i].start <= x.start})
    IN  SubSeq(sorted, 1, n) \o <<x>> \o SubSeq(sorted, n + 1, Len(sorted))

RECURSIVE SortByStart(_)
SortByStart(s) ==
    IF s = <<>> THEN <<>>
    ELSE InsertByStart(SortByStart(SubSeq(s, 1, Len(s) - 1)), s[Len(s)])

\* the chunks of splitter.split_text for an oversized segment, n parts
SplitPartsMerged(seg, n) ==
    <<[start |-> seg.start, end |-> seg.end,
       groups |-> [i \in 1..n |-> Group(seg.key, i)], text |-> <<PART>>]>>
SplitParts(seg, n) ==
    [i \in 1..n |-> [start |-> seg.start, end |-> seg.end,
                     groups |-> <<Group(seg.key, i)>>, text |-> <<PART>>]]

\* the current chunk is closed before the parts of an oversized segment
OversizedFlushForgotten(chunks, current) == chunks
OversizedFlush(chunks, current) ==
    IF current.text # <<>> THEN Append(chunks, Flushed(current)) ELSE chunks

\* one pass of the loop over the segments
ChunkSegment(acc, seg, max, n) ==
    LET text == StripSpaces(seg.text)
        text_token_len == CountTokens(text)
    IN  IF text_token_len > max
        THEN [chunks |-> OversizedFlush(acc.chunks, acc.current) \o SplitParts(seg, n),
              current |-> IF acc.current.text # <<>> THEN EmptyChunk ELSE acc.current]
        ELSE LET full == CharLen(acc.current.text) + text_token_len + 1 > max
                 chunks == IF full THEN Append(acc.chunks, Flushed(acc.current))
                           ELSE acc.chunks
                 cur == IF full THEN EmptyChunk ELSE acc.current
             IN  [chunks |-> chunks,
                  current |-> [start |-> IF cur.text = <<>> THEN seg.start ELSE cur.start,
                               end |-> seg.end,
                               groups |-> Append(cur.groups, Group(seg.key, 0)),
                               text |-> cur.text
                                        \o (IF cur.text # <<>> THEN <<SP>> ELSE <<>>)
                                        \o text]]

RECURSIVE ChunkLoop(_, _, _)
ChunkLoop(segs, max, n) ==
    IF segs = <<>> THEN [chunks |-> <<>>, current |-> EmptyChunk]
    ELSE ChunkSegment(ChunkLoop(SubSeq(segs, 1, Len(segs) - 1), max, n),
                      segs[Len(segs)], max, n)

\* what chunk_transcript_text returns, or the exception of the splitter, whose
\* constructor refuses an overlap larger than the chunk size
ChunkTranscriptText(items, max, n) ==
    IF ChunkOverlap > max THEN [raised |-> TRUE, chunks |-> <<>>]
    ELSE LET acc == ChunkLoop(SortByStart(TranscriptText(items)), max, n)
         IN  [raised |-> FALSE,
              chunks |-> IF acc.current.text # <<>>
                         THEN Append(acc.chunks, Flushed(acc.current))
                         ELSE acc.chunks]

\* the transcript file of the call at hand: timeframe keys and their texts, in
\* the order of the file
Transcript == IF call.fn = "chunk_transcript_text" THEN call.transcript ELSE <<>>

\* the transcription writes one more segment to the transcript file
WriteSegment(k, text) ==
    /\ call.fn \in {"-", "chunk_transcript_text"}
    /\ ret = NoRet
    /\ \A i \in 1..Len(Transcript) : Transcript[i].key # k
    /\ call' = [fn |-> "chunk_transcript_text",
                transcript |-> Append(Transcript, [key |-> k, text |-> text]),
                max_chunk_token_size |-> 0]
    /\ ret' = NoRet
    /\ UNCHANGED <<uploadVars, session_collections, registered, lookup, node,
                   apiVars, qdrant, tasks>>

ChunkTranscriptTextCall(max, n) ==
    /\ call.fn \in {"-", "chunk_transcript_text"}
    /\ ret = NoRet
    /\ call' = [fn |-> "chunk_transcript_text", transcript |-> Transcript,
                max_chunk_token_size |-> max]
    /\ ret' = ChunkTranscriptText(Transcript, max, n)
    /\ UNCHANGED <<uploadVars, session_collections, registered, lookup, node,
                   apiVars, qdrant, tasks>>

NextChunker ==
    \/ \E k \in Keys, text \in Texts : WriteSegment(k, text)
    \/ \E max \in MaxChunkTokenSizes, n \in 2..MaxParts : ChunkTranscriptTextCall(max, n)

SpecChunker == Init /\ [][NextChunker]_vars

\* chunk_transcript_text has returned its chunks
Chunked == call.fn = "chunk_transcript_text" /\ ret # NoRet /\ ~ret.raised
Chunks == ret.chunks
MaxChunkTokenSize == call.max_chunk_token_size
WholeSegments(c) == \A i \in 1..Len(c.groups) : c.groups[i].part = 0

(***************************************************************************)
(* The indexer and the ordered scan of the vector store                    *)
(* (src/vector_database/utils.py index_chunks_to_qdrant,                   *)
(* src/vector_database/retriever.py get_summary_chunks).  A string is a    *)
(* sequence of pieces; a payload is a record with the keys the code puts   *)
(* in the dict.  A collection is the sequence of its points in the order   *)
(* in which scroll returns them.                                           *)
(***************************************************************************)
MaxChunks == 2     \* points the indexer may add to the collection
MaxPoints == 11    \* points of a collection that exists before the calls

ScrollLimit == 10  \* qdrant_client.scroll is called without a limit: one page

\* the summary chunks handed to the indexer (audio_extractor.py:448-453,
\* video_frames_extractor.py:261-266)
SummaryChunks ==
    {[text |-> <<"Hello", SP, "world">>, summary |-> <<"greeting">>,
      topics |-> <<"hello", "world">>, type |-> "txt"],
     [text |-> <<"slide">>, summary |-> <<SP, "title", SP>>,
      topics |-> <<>>, type |-> "img"]}

ChunkLists == UNION {[1..n -> SummaryChunks] : n \in 0..MaxChunks}

\* ", ".join(topics)
RECURSIVE JoinTopics(_)
JoinTopics(topics) ==
    IF topics = <<>> THEN <<>>
    ELSE IF Len(topics) = 1 THEN topics
    ELSE <<Head(topics), ", ">> \o JoinTopics(Tail(topics))

EmbedText(chunk) ==
    <<"Summary: ">> \o chunk.summary \o <<"<nl>", "Topics: ">> \o JoinTopics(chunk.topics)
        \o <<"<nl>", "---", "<nl>">> \o chunk.text

Payload(chunk) ==
    [text |-> EmbedText(chunk), summary |-> chunk.summary, topics |-> chunk.topics]

\* build_dense_embedding, build_sparse_embedding or build_qdrant_point raises
\* for a chunk
ChunkSteps == {"ok", "dense_fails", "sparse_fails", "point_fails"}

\* the points built for the chunks that did not fail, in order
RECURSIVE QdrantPoints(_, _)
QdrantPoints(chunks, steps) ==
    IF chunks = <<>> THEN <<>>
    ELSE LET rest == QdrantPoints(SubSeq(chunks, 1, Len(chunks) - 1),
                                  SubSeq(steps, 1, Len(steps) - 1))
         IN  IF steps[Len(chunks)] = "ok"
             THEN Append(rest, [payload |-> Payload(chunks[Len(chunks)])])
             ELSE rest

\* if not qdrant_points
NoValidPointsIgnored(points) == FALSE
NoValidPoints(points) == points = <<>>

\* get_or_create_collection raises, or qdrant_client.upsert raises
StoreSteps == {"ok", "collection_fails", "upsert_fails"}

\* what index_chunks_to_qdrant returns or that it raises, and the bulk upsert
\* calls it has made
IndexChunksToQdrant(chunks, steps, store) ==
    LET points == QdrantPoints(chunks, steps)
    IN  IF store = "collection_fails" \/ NoValidPoints(points)
        THEN [raised |-> TRUE, value |-> 0, upserts |-> <<>>, stored |-> <<>>]
        ELSE IF store = "upsert_fails"
        THEN [raised |-> TRUE, value |-> 0, upserts |-> <<points>>, stored |-> <<>>]
        ELSE [raised |-> FALSE, value |-> Len(points), upserts |-> <<points>>,
              stored |-> points]

IndexChunksToQdrantCall(chunks, store) ==
    /\ Len(qdrant) + Len(chunks) <= MaxChunks
    /\ \E steps \in [1..Len(chunks) -> ChunkSteps] :
           LET r == IndexChunksToQdrant(chunks, steps, store)
           IN  /\ call' = [fn |-> "index_chunks_to_qdrant", summary_chunks |-> chunks,
                           steps |-> steps, store |-> store, before |-> qdrant]
               /\ ret' = [raised |-> r.raised, value |-> r.value, upserts |-> r.upserts]
               /\ qdrant' = qdrant \o r.stored
    /\ UNCHANGED <<uploadVars, session_collections, registered, lookup, node, apiVars,
                   tasks>>

\* a point with the payload schema of the collection contract: type and
\* sequence_index next to text, summary and topics
StoredPoint(type, seq) ==
    [payload |-> [text |-> <<"text">>, summary |-> <<SP, "summary">>, topics |-> <<"topic">>,
                  type |-> type, sequence_index |-> seq]]

\* a collection that exists in the store: n_img points of type img, then n_txt
\* points of type txt whose sequence indexes rise or fall along the scroll
StoredCollection(n_txt, n_img, rising) ==
    [i \in 1..n_img |-> StoredPoint("img", i)]
    \o [i \in 1..n_txt |-> StoredPoint("txt", IF rising THEN i ELSE n_txt + 1 - i)]

\* the client is connected to a store in which the collection already exists
\* (qdrant_client.py:67-68)
ExistingCollection(n_txt, n_img, rising) ==
    /\ call = NoCall
    /\ qdrant = <<>>
    /\ n_txt + n_img > 0
    /\ qdrant' = StoredCollection(n_txt, n_img, rising)
    /\ UNCHANGED <<uploadVars, session_collections, registered, lookup, node, apiVars,
                   call, ret, tasks>>

\* dict.get
Get(payload, key, default) == IF key \in DOMAIN payload THEN payload[key] ELSE default

\* the filter of the scroll: FieldCondition(key = type, match = match_type)
RECURSIVE TypeFilter(_, _)
TypeFilter(points, match_type) ==
    IF points = <<>> THEN <<>>
    ELSE (IF "type" \in DOMAIN Head(points).payload /\ Head(points).payload.type = match_type
          THEN <<Head(points)>> ELSE <<>>)
         \o TypeFilter(Tail(points), match_type)

\* qdrant_client.scroll(...)[0]: the first page of the matching points
Scroll(points, match_type) ==
    LET matching == TypeFilter(points, match_type)
    IN  SubSeq(matching, 1, IF Len(matching) < ScrollLimit THEN Len(matching) ELSE ScrollLimit)

\* sorted(retrieval_points, key = sequence_index or 0): stable
InsertBySequenceIndex(sorted, p) ==
    LET n == Cardinality({i \in 1..Len(sorted) :
                 Get(sorted[i].payload, "sequence_index", 0)
                     <= Get(p.payload, "sequence_index", 0)})
    IN  SubSeq(sorted, 1, n) \o <<p>> \o SubSeq(sorted, n + 1, Len(sorted))

RECURSIVE SortBySequenceIndex(_)
SortBySequenceIndex(points) ==
    IF points = <<>> THEN <<>>
    ELSE InsertBySequenceIndex(SortBySequenceIndex(SubSeq(points, 1, Len(points) - 1)),
                               points[Len(points)])

\* the formatted entry of the point at position idx
Formatted(point, idx) ==
    [seq_index |-> Get(point.payload, "sequence_index", idx),
     summary |-> StripSpaces(Get(point.payload, "summary", <<>>)),
     topics |-> JoinTopics(Get(point.payload, "topics", <<>>))]

\* the entries get_summary_chunks joins into its result
GetSummaryChunks(points, match_type) ==
    LET sorted == SortBySequenceIndex(Scroll(points, match_type))
    IN  [idx \in 1..Len(sorted) |-> Formatted(sorted[idx], idx)]

GetSummaryChunksCall(match_type) ==
    /\ call' = [fn |-> "get_summary_chunks", match_type |-> match_type]
    /\ ret' = [raised |-> FALSE, entries |-> GetSummaryChunks(qdrant, match_type)]
    /\ UNCHANGED <<uploadVars, session_collections, registered, lookup, node, apiVars,
                   qdrant, tasks>>

NextIndex ==
    \/ \E chunks \in ChunkLists, store \in StoreSteps :
           IndexChunksToQdrantCall(chunks, store)
    \/ \E n_txt \in 0..MaxPoints, n_img \in 0..1, rising \in BOOLEAN :
           ExistingCollection(n_txt, n_img, rising)
    \/ \E match_type \in {"txt", "img"} : GetSummaryChunksCall(match_type)

SpecIndex == Init /\ [][NextIndex]_vars

(***************************************************************************)
(* summarize_transcript_chunks (web/mcp_tools/audio_extractor.py): one     *)
(* model call and one parse for every chunk of the chunker.  The chunks    *)
(* handed in are chunks as chunk_transcript_text returns them, the chunk   *)
(* without text and times it emits for a segment of exactly                *)
(* max_chunk_token_size tokens included.                                   *)
(***************************************************************************)
MaxSummaryInputs == 3   \* chunks of one call of the summarizer

TranscriptChunks ==
    {[start |-> 0, end |-> 5, groups |-> <<Group(TimeframeKey(0, 5), 0)>>,
      text |-> <<"Hello">>],
     [start |-> 5, end |-> 10, groups |-> <<Group(TimeframeKey(5, 10), 1)>>,
      text |-> <<PART>>],
     Flushed(EmptyChunk)}

TranscriptChunkLists == UNION {[1..n -> TranscriptChunks] : n \in 0..MaxSummaryInputs}

\* generate_qwen_response raises, or transcript_summary_parser.parse rejects
\* the output of the model
SummaryOutcomes == {"ok", "generate_fails", "parse_fails"}

\* the f-string of the progress line formats start and end with :.2f, which
\* raises on None
FormatRaises(chunk) == chunk.start = NoTime \/ chunk.end = NoTime

\* the body of the loop for one chunk: the SummaryChunk appended, or nothing
\* when anything in the try block raises
SummarizeOne(chunk, out) ==
    IF FormatRaises(chunk) \/ out # "ok" THEN <<>>
    ELSE <<[text |-> chunk.text, summary |-> <<"summary">>, topics |-> <<"topic">>,
            type |-> "txt"]>>

RECURSIVE SummarizeTranscriptChunks(_, _)
SummarizeTranscriptChunks(chunks, outs) ==
    IF chunks = <<>> THEN <<>>
    ELSE SummarizeTranscriptChunks(SubSeq(chunks, 1, Len(chunks) - 1),
                                   SubSeq(outs, 1, Len(outs) - 1))
         \o SummarizeOne(chunks[Len(chunks)], outs[Len(chunks)])

SummarizeTranscriptChunksCall(chunks) ==
    \E outs \in [1..Len(chunks) -> SummaryOutcomes] :
        /\ call = NoCall
        /\ call' = [fn |-> "summarize_transcript_chunks", chunks |-> chunks,
                    outs |-> outs]
        /\ ret' = [raised |-> FALSE,
                   summary_chunks |-> SummarizeTranscriptChunks(chunks, outs)]
        /\ UNCHANGED <<uploadVars, session_collections, registered, lookup, node,
                       apiVars, qdrant, tasks>>

NextSummarizer == \E chunks \in TranscriptChunkLists : SummarizeTranscriptChunksCall(chunks)

SpecSummarizer == Init /\ [][NextSummarizer]_vars

(***************************************************************************)
(* Video-processing tasks of one event loop.  upload_file starts a task    *)
(* with asyncio.create_task and returns; the task awaits the run of the    *)
(* graph, during which other tasks run, and then chunks, summarizes,       *)
(* indexes and registers without awaiting, so a registration is one step.  *)
(***************************************************************************)
MaxTasks == 2      \* tasks started in one behaviour

\* asyncio.create_task(process_uploaded_video_with_progress(path, id, session_id, db))
CreateTask(s, ts) ==
    /\ Len(tasks) < MaxTasks
    /\ tasks' = Append(tasks, [session_id |-> s,
                               file_path |-> SafeFilename(ts, "lecture.mp4"),
                               pc |-> "running", order |-> 0])
    /\ UNCHANGED <<uploadVars, apiVars, session_collections, registered, lookup, node,
                   call, ret, qdrant>>

Registrations == Cardinality({i \in 1..Len(tasks) : tasks[i].order > 0})

\* the task comes back from the graph and processes the transcript: on success
\* set_collection_name_for_session(session_id, collection_name) runs with the
\* session id process_uploaded_video was given
TaskFinishes(i, ok) ==
    /\ i \in 1..Len(tasks)
    /\ tasks[i].pc = "running"
    /\ IF ok
       THEN /\ session_collections' =
                   SetCollection(session_collections, SessionArgument(tasks[i]),
                                 VideoName(tasks[i].file_path))
            /\ registered' = registered
                   \cup {<<SessionArgument(tasks[i]), VideoName(tasks[i].file_path)>>}
            /\ tasks' = [tasks EXCEPT ![i].pc = "finished",
                                      ![i].order = Registrations + 1]
       ELSE /\ tasks' = [tasks EXCEPT ![i].pc = "finished"]
            /\ UNCHANGED <<session_collections, registered>>
    /\ UNCHANGED <<uploadVars, apiVars, lookup, node, call, ret, qdrant>>

NextTasks ==
    \/ \E s \in UploadSessions, ts \in Timestamps : CreateTask(s, ts)
    \/ \E i \in 1..MaxTasks, ok \in BOOLEAN : TaskFinishes(i, ok)

SpecTasks == Init /\ [][NextTasks]_vars

(***************************************************************************)
(* The runs of the main workflow for uploads of one video file, with the   *)
(* steps of a started run taken: an external call that returns lets the    *)
(* awaiting coroutine continue, so a step that stays enabled is eventually *)
(* taken.                                                                  *)
(***************************************************************************)
NextReturning ==
    \/ \E s \in UploadSessions, st \in StoreOutcomes :
           UploadFile(s, "lecture.mp4", "t1", st)
    \/ BgInitialization
    \/ BgAnalysis
    \/ \E out \in SetUpOutcomes : BuildAgentWorkflow(out)
    \/ \E r \in Replies : SupervisorNode(r)
    \/ \E out \in GeneralOutcomes : GeneralQuestionNode(out)
    \/ \E out \in FrameOutcomes : ExtractFramesNode(out)
    \/ \E out \in AudioOutcomes : ExtractAudioNode(out)
    \/ \E out \in TranscribeOutcomes : TranscribeAudioNode(out)
    \/ ExtractWorkflowResults
    \/ \E out \in TranscriptOutcomes : ProcessTranscript(out)
    \/ \E out \in FrameGroupOutcomes : ProcessFrameGroups(out)
    \/ BgFinalization
    \/ BgOutcome
    \/ \E ok \in BOOLEAN : StoreNotice(ok)
    \/ \E ok \in BOOLEAN : BgExcept(ok)

SpecReturning == Init /\ [][NextReturning]_vars /\ WF_vars(NextReturning)

(***************************************************************************)
(* Properties.                                                             *)
(***************************************************************************)
\* positions of the background task at which supervisor_node has returned and
\* its routing reply is still at hand
GraphPositions == {"general_question_workflow", "frame_processing_workflow",
                   "audio_processing_workflow", "transcript_audio_node",
                   "extract_results"}
SupervisorReturned == trace # <<>> /\ pc \in GraphPositions

\* the reply is an AI message holding a JSON object with next = L: bare, padded,
\* fenced with or without the json tag, in single or in double quotes
JsonReply(r, L) ==
    r.kind = "ai" /\ \E q \in {"single", "double"} : r.content \in Wrappings(Obj(q, L))

\* C1: a summary, RAG or report node run for a session with no registered
\* collection returns normally with the single reply that no video has been
\* processed, and makes no retriever query and no generation-model call.
C1_NoCollectionNoWork ==
    (node.kind # "-" /\ ~node.had_collection) =>
        /\ ~node.raised
        /\ node.appended = <<"no_video">>
        /\ node.retriever = 0
        /\ node.llm = 0
        /\ node.pdf = 0

\* a report node run for a session without a collection while another session
\* has one
C1_Witness ==
    /\ node.kind = "report"
    /\ ~node.had_collection
    /\ node.appended = <<"no_video">>
    /\ \E s \in Sessions \ {node.session_id} : HadCollection(s)

C3_LookupOwnSessionOnly ==
    lookup.session_id # "-" =>
        /\ lookup.value # None => <<lookup.session_id, lookup.value>> \in registered
        /\ ~HadCollection(lookup.session_id) => lookup.value = None

\* a lookup for s2 answers absent although s1 has a collection
C3_Witness ==
    /\ lookup.session_id = "s2"
    /\ lookup.value = None
    /\ HadCollection("s1")
    /\ ~HadCollection("s2")

\* C4: a routing reply that is a JSON object with next = L, for L one of
\* summary_workflow, rag_workflow, report_workflow, bare or fenced or written
\* with single quotes, is routed to L.
C4_RoutesToSessionWorkflows ==
    \A L \in {"summary_workflow", "rag_workflow", "report_workflow"} :
        (SupervisorReturned /\ JsonReply(reply, L)) => goto = L

\* the reply is not an AI message, or its text is no JSON object, or the object
\* has no next or a next outside the routing schema
Unroutable(r) ==
    \/ r.kind \in {"raise", "none", "human", "ai_list"}
    \/ /\ r.kind = "ai"
       /\ \E b \in Bodies : /\ r.content \in Wrappings(b)
                            /\ (b = TEXT \/ b.next \notin RouterLiterals)

C6_FrameReplyRoutesToFrames ==
    (SupervisorReturned /\ JsonReply(reply, "frame_processing_workflow")) =>
        goto = "frame_processing_workflow"

\* a fenced single-quoted reply has been routed and the frame node has run
C6_Witness ==
    /\ SupervisorReturned
    /\ reply = Reply("ai", <<FENCE, JSONTAG, WS,
                             Obj("single", "frame_processing_workflow"), WS, FENCE>>)
    /\ goto = "frame_processing_workflow"
    /\ Executed("extract_frames_from_video") = 1

\* C7: in every run of the main graph the supervisor is the first node, runs
\* exactly once and makes exactly one routing-model call.
C7_SupervisorOnceFirst ==
    /\ pc \in GraphPositions \cup {"process_transcript", "process_frames"} => trace # <<>>
    /\ trace # <<>> =>
           /\ trace[1] = "supervisor"
           /\ Executed("supervisor") = 1
           /\ routerCalls = 1
    /\ trace = <<>> => routerCalls = 0

\* a run through the supervisor, the frame node and both audio nodes has ended
C7_Witness ==
    /\ pc = "extract_results"
    /\ trace = <<"supervisor", "extract_frames_from_video", "extract_audio_from_video",
                 "transcript_audio_node">>

\* C8: once the status of a workflow is completed or failed, no step changes
\* its entry.
C8_TerminalStatusFrozen ==
    [][\A w \in DOMAIN workflow_status :
           workflow_status[w].status \in {"completed", "failed"} =>
               /\ w \in DOMAIN workflow_status'
               /\ workflow_status'[w] = workflow_status[w]]_vars

C10_StatusEntriesWellFormed ==
    [][/\ \A w \in DOMAIN workflow_status' :
              /\ workflow_status'[w].status \in {"processing", "completed", "failed"}
              /\ workflow_status'[w].progress \in 0..100
              /\ workflow_status'[w].progress = 100 =>
                     workflow_status'[w].status \in {"completed", "failed"}
              /\ GetWorkflowStatus(w)'.status # "not_found"
       /\ \A w \in DOMAIN workflow_status :
              /\ w \in DOMAIN workflow_status'
              /\ workflow_status'[w].progress >= workflow_status[w].progress
       /\ \A s \in Sessions, id \in 1..(MaxUploads + 1) :
              WorkflowId(s, id) \notin DOMAIN workflow_status' =>
                  GetWorkflowStatus(WorkflowId(s, id))'.status = "not_found"]_vars

\* a workflow has gone through its checkpoints and is completed at 100
C10_Witness ==
    /\ pc = "done"
    /\ Entry.status = "completed"
    /\ Entry.progress = 100
    /\ Entry.current_step = "Completed"

\* C11: an accepted upload answers with a workflow id exactly when the file is
\* an .mp4 whose background task was created in this request; the entry of that
\* id is in the status map from that step on, before the task takes its first
\* step, so that polling an issued id never reports not_found; an id that was
\* never issued is reported as not_found with progress 0.
C11_WorkflowIdIssuedWithEntry ==
    [][/\ (response'.code = 200 /\ nextFileId' = nextFileId + 1) =>
              /\ (response'.workflow_id # NoWorkflow) <=>
                     (Suffix(response'.filename) = ".mp4" /\ pc' = "bg_start")
              /\ response'.workflow_id # NoWorkflow =>
                     /\ task'.workflow_id = response'.workflow_id
                     /\ response'.workflow_id \notin DOMAIN workflow_status
                     /\ StatusResponse(workflow_status', response'.workflow_id) =
                            [status |-> "processing", progress |-> 0]
       /\ response'.workflow_id # NoWorkflow =>
              StatusResponse(workflow_status', response'.workflow_id).status # "not_found"
       /\ task'.workflow_id # NoWorkflow =>
              StatusResponse(workflow_status', task'.workflow_id).status # "not_found"
       /\ \A s \in Sessions, id \in 1..(MaxUploads + 1) :
              id >= nextFileId' =>
                  StatusResponse(workflow_status', WorkflowId(s, id)) =
                      [status |-> "not_found", progress |-> 0]]_vars

\* the upload of an .mp4 has answered with its workflow id and the background
\* task has not taken a step yet
C11_Witness ==
    /\ response.code = 200
    /\ response.workflow_id # NoWorkflow
    /\ pc = "bg_start"
    /\ GetWorkflowStatus(response.workflow_id) = [status |-> "processing", progress |-> 0]

\* C12: a rejected request has no side effects.  Every request that is answered
\* with 400 leaves the files, the session rows, the file-metadata rows, the
\* message rows, the status map and the count of generated replies as they
\* were, and no request with a missing filename, an extension outside the
\* allowed set or a blank message is answered with 200.
C12_RejectedRequestNoSideEffects ==
    [][/\ response'.code = 400 =>
              UNCHANGED <<files, sessions, nextFileId, chat, workflow_status, aiCalls,
                          pc, task>>
       /\ (response'.code = 200 /\ nextFileId' # nextFileId) =>
              /\ response'.filename # ""
              /\ Suffix(response'.filename) \in {".mp3", ".mp4"}
       /\ (response'.code = 200 /\ nextFileId' = nextFileId) =>
              StripText(response'.message) # ""
       /\ (sessions' # sessions \/ chat' # chat \/ aiCalls' # aiCalls \/ files' # files
           \/ workflow_status' # workflow_status) => response'.code # 400]_vars

\* rows are stored and afterwards a whitespace message has been rejected
C12_Witness ==
    /\ response.code = 400
    /\ chat["s1"] # <<>>
    /\ aiCalls = 1
    /\ files = 1

\* the group ids of all chunks, in output order
RECURSIVE AllGroups(_)
AllGroups(chunks) ==
    IF chunks = <<>> THEN <<>> ELSE Head(chunks).groups \o AllGroups(Tail(chunks))

\* the parts of one split segment follow one another, from part 1 on
PartsInSequence(groups) ==
    \A j \in 1..Len(groups) :
        groups[j].part > 1 =>
            j > 1 /\ groups[j - 1] = Group(groups[j].key, groups[j].part - 1)

\* the keys of a list of group ids, the parts of one segment counted once
RECURSIVE SegmentKeys(_)
SegmentKeys(groups) ==
    IF groups = <<>> THEN <<>>
    ELSE (IF Head(groups).part <= 1 THEN <<Head(groups).key>> ELSE <<>>)
         \o SegmentKeys(Tail(groups))

\* ks lists the keys of the set expected in start-time order, each exactly once
InStartOrderOnce(ks, expected) ==
    /\ Len(ks) = Cardinality(expected)
    /\ {ks[i] : i \in 1..Len(ks)} = expected
    /\ \A i, j \in 1..Len(ks) : i < j => ks[i].a <= ks[j].a

HasText(t) == \E i \in 1..Len(t) : t[i] # SP
AllKeys == {Transcript[i].key : i \in 1..Len(Transcript)}
KeysWithText == {Transcript[i].key : i \in {j \in 1..Len(Transcript) : HasText(Transcript[j].text)}}

\* C13 as stated: the groups of the returned chunks, concatenated in output
\* order with the parts of one split segment counted as that segment, are the
\* timeframe keys of the transcript in start-time order, each exactly once.
C13_AllKeysOnce ==
    Chunked =>
        /\ PartsInSequence(AllGroups(Chunks))
        /\ InStartOrderOnce(SegmentKeys(AllGroups(Chunks)), AllKeys)

\* C13 (amended): the groups of the returned chunks, concatenated in output
\* order with the parts of one split segment counted as that segment, are the
\* timeframe keys of the segments whose text is not blank, in start-time
\* order, each exactly once: no segment with text is dropped and none is
\* duplicated.
C13_KeysWithTextOnce ==
    Chunked =>
        /\ PartsInSequence(AllGroups(Chunks))
        /\ InStartOrderOnce(SegmentKeys(AllGroups(Chunks)), KeysWithText)

\* a transcript written out of start order, with a blank segment and with an
\* oversized segment that follows a pending chunk, has been chunked
C13_Witness ==
    /\ Chunked
    /\ Len(Transcript) = MaxKeys
    /\ Transcript[1].key.a > Transcript[2].key.a
    /\ \E i \in 1..Len(Transcript) : ~HasText(Transcript[i].text)
    /\ Len(Chunks) > 2
    /\ \E j \in 2..Len(Chunks) : Chunks[j].groups[1].part = 1

\* C14: every returned chunk that is built from whole segments has a token
\* count, measured as count_tokens measures it, of at most
\* max_chunk_token_size; the parts of a split segment are exempt.
C14_WholeSegmentChunksWithinMax ==
    Chunked =>
        \A j \in 1..Len(Chunks) :
            (Chunks[j].groups # <<>> /\ WholeSegments(Chunks[j])) =>
                CountTokens(Chunks[j].text) <= MaxChunkTokenSize

\* C15: no returned chunk is empty: each has text, at least one group id and a
\* numeric start and end, also when a segment has exactly max_chunk_token_size
\* tokens.
C15_NoEmptyChunk ==
    Chunked =>
        \A j \in 1..Len(Chunks) :
            /\ Chunks[j].text # <<>>
            /\ Chunks[j].groups # <<>>
            /\ Chunks[j].start # NoTime
            /\ Chunks[j].end # NoTime

\* C16: the start values of the returned chunks are numbers that do not
\* decrease along the output, whatever the order of the keys in the transcript.
C16_StartsNonDecreasing ==
    Chunked =>
        /\ \A j \in 1..Len(Chunks) : Chunks[j].start # NoTime
        /\ \A i, j \in 1..Len(Chunks) : i < j => Chunks[i].start <= Chunks[j].start

\* the text of the segment with key k
TextOf(k) == Transcript[CHOOSE i \in 1..Len(Transcript) : Transcript[i].key = k].text

\* the texts of the segments of a list of group ids, joined by single spaces
RECURSIVE JoinedText(_)
JoinedText(groups) ==
    IF groups = <<>> THEN <<>>
    ELSE IF Len(groups) = 1 THEN StripSpaces(TextOf(groups[1].key))
    ELSE StripSpaces(TextOf(groups[1].key)) \o <<SP>> \o JoinedText(Tail(groups))

\* the tokens of all segments and one more for each of them
RECURSIVE TokensToHold(_)
TokensToHold(items) ==
    IF items = <<>> THEN 0
    ELSE CountTokens(StripSpaces(Head(items).text)) + 1 + TokensToHold(Tail(items))

\* C17: when max_chunk_token_size is large enough to hold all segments of a
\* transcript (every segment has text; the tokens of the segments and of the
\* spaces between them stay below max_chunk_token_size), exactly one chunk is
\* returned: its groups are all keys in start order, its start is the start of
\* the first segment, its end is the end of the last one and its text is the
\* texts joined by single spaces.
C17_OneChunkWhenAllFits ==
    (/\ Chunked
     /\ Transcript # <<>>
     /\ KeysWithText = AllKeys
     /\ TokensToHold(Transcript) <= MaxChunkTokenSize) =>
        /\ Len(Chunks) = 1
        /\ InStartOrderOnce(SegmentKeys(Chunks[1].groups), AllKeys)
        /\ WholeSegments(Chunks[1])
        /\ \A k \in AllKeys : Chunks[1].start <= k.a
        /\ \A k \in AllKeys : k.a >= Chunks[1].groups[Len(Chunks[1].groups)].key.a
                                  => Chunks[1].end = k.b
        /\ Chunks[1].text = JoinedText(Chunks[1].groups)

\* index_chunks_to_qdrant was the last call
Indexed == call.fn = "index_chunks_to_qdrant"
OkChunks == {i \in 1..Len(call.summary_chunks) : call.steps[i] = "ok"}
KthOk(k) == CHOOSE i \in OkChunks : Cardinality({j \in OkChunks : j <= i}) = k

\* C18: with the store at work, index_chunks_to_qdrant on N chunks of which F
\* fail in an embedding or in the point-building step returns N - F and
\* upserts the N - F points of the other chunks, in order, in one bulk call
\* when N - F >= 1; when N - F = 0, the empty list included, it raises and
\* makes no upsert.  When the store fails the call raises and adds no point.
C18_IndexReturnsSucceeded ==
    Indexed =>
        LET N == Len(call.summary_chunks)
            F == N - Cardinality(OkChunks)
        IN  /\ (call.store = "ok" /\ N - F >= 1) =>
                   /\ ~ret.raised
                   /\ ret.value = N - F
                   /\ Len(ret.upserts) = 1
                   /\ Len(ret.upserts[1]) = N - F
                   /\ \A k \in 1..(N - F) :
                          ret.upserts[1][k].payload = Payload(call.summary_chunks[KthOk(k)])
                   /\ qdrant = call.before \o ret.upserts[1]
            /\ (call.store = "ok" /\ N - F = 0) =>
                   /\ ret.raised
                   /\ ret.upserts = <<>>
                   /\ qdrant = call.before
            /\ call.store # "ok" => ret.raised /\ qdrant = call.before

\* two chunks were indexed of which the first failed: one point was upserted
C18_Witness ==
    /\ Indexed
    /\ call.store = "ok"
    /\ Len(call.summary_chunks) = MaxChunks
    /\ Cardinality(OkChunks) = Len(call.summary_chunks) - 1
    /\ 1 \notin OkChunks
    /\ ret.value = Len(call.summary_chunks) - 1
    /\ Len(qdrant) = Len(call.before) + ret.value

\* the points of the collection with the type of chunk c
PointsOfType(type) ==
    {i \in 1..Len(qdrant) :
         "type" \in DOMAIN qdrant[i].payload /\ qdrant[i].payload.type = type}

\* C19: after index_chunks_to_qdrant has indexed a summary chunk c, the scroll
\* of the collection filtered by type = c.type returns a point whose payload
\* text, summary and topics are c.text, c.summary and c.topics.
C19_IndexingRoundTrip ==
    (Indexed /\ ~ret.raised) =>
        \A i \in OkChunks :
            LET c == call.summary_chunks[i]
            IN  \E j \in PointsOfType(c.type) :
                    /\ qdrant[j].payload.text = c.text
                    /\ qdrant[j].payload.summary = c.summary
                    /\ qdrant[j].payload.topics = c.topics

\* get_summary_chunks was the last call
Summarized == call.fn = "get_summary_chunks"

\* C20: get_summary_chunks(collection, T) returns one entry for every point of
\* the collection whose payload type is T, however many points are stored, in
\* ascending order of sequence_index.
C20_AllPointsOfTypeInSequence ==
    Summarized =>
        /\ Len(ret.entries) = Cardinality(PointsOfType(call.match_type))
        /\ \A i, j \in 1..Len(ret.entries) :
               i < j => ret.entries[i].seq_index <= ret.entries[j].seq_index

\* rag_node has run for a session with a collection, and the stage it failed at
RagRan == node.kind = "rag" /\ "stage" \in DOMAIN node
RagFailures == RagStages \ {"none", "empty_answer"}

\* C21: for a session with a registered collection, whatever stage of rag_node
\* fails (embedding-model lookup, vector query, context building,
\* generation-model lookup, generation, answer parsing), the node returns
\* normally with exactly one appended apologetic AI text; the generation model
\* is not called after the failure of an earlier stage.
C21_RagFailureDegradesToApology ==
    (RagRan /\ node.stage \in RagFailures) =>
        /\ Truthy(session_collections[node.session_id])
        /\ ~node.raised
        /\ node.appended = <<"error">>
        /\ node.stage \notin {"generate", "parse"} => node.llm = 0
        /\ node.pdf = 0

\* the vector query of a session with a collection has failed
C21_Witness ==
    /\ RagRan
    /\ node.stage = "query"
    /\ node.had_collection
    /\ node.retriever = 1
    /\ node.appended = <<"error">>

\* report_workflow_node has run both steps: the conversation it returns holds
\* the query, the message of the summary step and the message of the report step
ReportRan == node.kind = "report" /\ Len(node.appended) = 3
NoSummaryContent == ReportRan /\ node.appended[2] # "summary"

\* C22: when the summary step yields no summary content (no txt chunks, or a
\* failed summarization that left only an error or default message), the
\* report step stops: it appends an error message, makes no report-formatting
\* model call (the only model call left is the one of the summarization, if
\* it came that far) and renders no PDF.
C22_NoReportWithoutSummary ==
    NoSummaryContent =>
        /\ node.appended[3] = "error"
        /\ node.pdf = 0
        /\ node.llm <= 1
        /\ node.appended[2] = "nothing_to_summarize" => node.llm = 0

\* the texts that are built from a caught exception: the f-strings of
\* process_uploaded_video_with_progress that embed result["error"] or str(e),
\* and the message of the outer except branch of report_node
ExceptionTextPrefixes == {"Processing failed", "Processing error",
                          "Video processing failed",
                          "Video processing encountered an error"}
CarriesExceptionText(text) == text[1] \in ExceptionTextPrefixes

\* C23: no text shown to the end user contains the text of a caught
\* exception: neither a message an agent node appends, nor an AI chat message
\* stored for a session, nor the message of a workflow status.
C23_NoExceptionTextShown ==
    /\ \A i \in 1..Len(node.appended) : node.appended[i] # "error_with_exception_text"
    /\ \A s \in Sessions : \A i \in 1..Len(chat[s]) :
           chat[s][i].message_type = "ai" => ~CarriesExceptionText(chat[s][i].content)
    /\ \A w \in DOMAIN workflow_status :
           ~CarriesExceptionText(workflow_status[w].message)

\* a summary, RAG or report node has returned (node.appended is the update the
\* add_messages reducer appends to the conversation the node received)
NodeReturned == node.kind \in {"summary", "rag", "report"} /\ ~node.raised

\* C24: an agent node that returns leaves the conversation equal to the
\* sequence it received followed by exactly one new message.
C24_ExactlyOneMessageAppended == NodeReturned => Len(node.appended) = 1

\* the place in the conversation of the message the i-th executed node
\* appended: the conversation starts with the request and every node but the
\* supervisor appends one message
MessageIndex(i) == 1 + Cardinality({j \in 1..i : trace[j] # "supervisor"})
AudioExtractionFailedAt(i) ==
    /\ i \in 1..Len(trace)
    /\ trace[i] = "extract_audio_from_video"
    /\ messages[MessageIndex(i)] = "error"

\* C25: when extract_audio_node has failed, transcribe_audio_node is not
\* executed in that run and the error message of extract_audio_node stays the
\* last message of the conversation (one error message was gained, no more).
C25_NoTranscriptionAfterFailedExtraction ==
    \A i \in 1..Len(trace) :
        AudioExtractionFailedAt(i) =>
            /\ Executed("transcript_audio_node") = 0
            /\ MessageIndex(i) = Len(messages)

\* extract_frames_node was the i-th node executed and found a missing file, a
\* failing extraction or grouping, or no group folder at all
FrameExtractionFailedAt(i) ==
    /\ i \in 1..Len(trace)
    /\ trace[i] = "extract_frames_from_video"
    /\ messages[MessageIndex(i)] \in {"error", "frame_payload_empty"}

\* C26: when extract_frames_node fails (missing video file, extraction error,
\* grouping failure or no usable group folder) it appends an error message
\* and no frame_group_folder_path payload, no further node runs in that run
\* and nothing is indexed.
C26_FrameFailureStopsTheRun ==
    \A i \in 1..Len(trace) :
        FrameExtractionFailedAt(i) =>
            /\ messages[MessageIndex(i)] = "error"
            /\ i = Len(trace)
            /\ ~found.txt_indexed
            /\ ~found.img_indexed

TranscriptionRanAt(i) == i \in 1..Len(trace) /\ trace[i] = "transcript_audio_node"

\* C27: transcribe_audio_node runs only on the structured payload of a
\* successful extract_audio_node, which is then the message right before its
\* own; it appends either the transcript payload or one error text.
C27_TranscriptionOnlyOnAudioPayload ==
    \A i \in 1..Len(trace) :
        TranscriptionRanAt(i) =>
            /\ messages[MessageIndex(i) - 1] = "audio_payload"
            /\ messages[MessageIndex(i)] \in {"transcript_payload", "error"}

\* C28: a routing reply whose next is present but is neither a workflow name
\* nor FINISH nor __end__ makes supervisor_node route to
\* general_question_workflow.
C28_UnknownLiteralDefaultsToGeneral ==
    (SupervisorReturned /\ JsonReply(reply, "other_workflow")) =>
        goto = "general_question_workflow"

\* the segment with key k has more tokens than max_chunk_token_size
Oversized(k) == CountTokens(StripSpaces(TextOf(k))) > MaxChunkTokenSize

\* the chunks up to the j-th hold every segment with text that starts before k
EarlierSegmentsFlushed(k, j) ==
    \A e \in KeysWithText :
        e.a < k.a => \E i \in 1..(j - 1) : \E x \in 1..Len(Chunks[i].groups) :
                         Chunks[i].groups[x].key = e

\* C29: a segment with more tokens than max_chunk_token_size is emitted, after
\* the chunk pending before it, as one chunk per piece with the group ids
\* key#part1, key#part2, ... in order and the start and end of the segment; no
\* piece shares a chunk with anything else; a segment that fits is never split
\* and the segments keep their start order.
C29_OversizedSegmentSplitInPlace ==
    Chunked =>
        /\ \A j \in 1..Len(Chunks) : \A x \in 1..Len(Chunks[j].groups) :
               LET g == Chunks[j].groups[x]
               IN  /\ g.part = 0 <=> ~Oversized(g.key)
                   /\ g.part >= 1 =>
                          /\ Len(Chunks[j].groups) = 1
                          /\ Chunks[j].start = ParseTimeframe(g.key).start
                          /\ Chunks[j].end = ParseTimeframe(g.key).end
                          /\ EarlierSegmentsFlushed(g.key, j)
                   /\ g.part > 1 => j > 1 /\ Chunks[j - 1].groups = <<Group(g.key, g.part - 1)>>
        /\ \A k \in KeysWithText :
               Oversized(k) => \E j \in 1..Len(Chunks) : Chunks[j].groups = <<Group(k, 1)>>
        /\ \A i, j \in 1..Len(AllGroups(Chunks)) :
               i < j => AllGroups(Chunks)[i].key.a <= AllGroups(Chunks)[j].key.a

\* an oversized segment between two segments that fit has been chunked: the
\* pending chunk, then the parts, then the chunk of the segment that follows
C29_Witness ==
    /\ Chunked
    /\ Len(Chunks) >= 4
    /\ Chunks[1].groups # <<>> /\ WholeSegments(Chunks[1])
    /\ Chunks[2].groups[1].part = 1
    /\ Chunks[3].groups[1].part = 2
    /\ Chunks[Len(Chunks)].groups # <<>> /\ WholeSegments(Chunks[Len(Chunks)])

\* the chunk that holds the i-th group id of the output, and the group ids of
\* that chunk up to the i-th: the accumulator after that segment was added
GroupsBefore(j) == Len(AllGroups(SubSeq(Chunks, 1, j - 1)))
ChunkOf(i) ==
    CHOOSE j \in 1..Len(Chunks) :
        GroupsBefore(j) < i /\ i <= GroupsBefore(j) + Len(Chunks[j].groups)
Accumulated(i) == SubSeq(Chunks[ChunkOf(i)].groups, 1, i - GroupsBefore(ChunkOf(i)))

\* C30: a segment that fits on its own joins the chunk of the segment before
\* it exactly when the token count of what was accumulated plus its own token
\* count does not exceed max_chunk_token_size; otherwise it starts a new chunk.
C30_MergedExactlyWhenTokensFit ==
    Chunked =>
        \A i \in 1..(Len(AllGroups(Chunks)) - 1) :
            LET G == AllGroups(Chunks)
            IN  (G[i].part = 0 /\ G[i + 1].part = 0) =>
                    (ChunkOf(i) = ChunkOf(i + 1)
                         <=> CountTokens(JoinedText(Accumulated(i)))
                                 + CountTokens(StripSpaces(TextOf(G[i + 1].key)))
                             <= MaxChunkTokenSize)

\* summarize_transcript_chunks was the last call
TranscriptSummarized == call.fn = "summarize_transcript_chunks"

\* C31: summarize_transcript_chunks returns one SummaryChunk per input chunk,
\* in input order, each with the text of its chunk; a chunk whose model output
\* does not parse is returned with summary "" and topics [].
C31_OneSummaryChunkPerChunk ==
    TranscriptSummarized =>
        /\ Len(ret.summary_chunks) = Len(call.chunks)
        /\ \A i \in 1..Len(call.chunks) :
               i <= Len(ret.summary_chunks) =>
                   /\ ret.summary_chunks[i].text = call.chunks[i].text
                   /\ call.outs[i] = "parse_fails" =>
                          /\ ret.summary_chunks[i].summary = <<>>
                          /\ ret.summary_chunks[i].topics = <<>>

\* the points of the bulk upsert of the call at hand
Upserted == IF ret.upserts = <<>> THEN <<>> ELSE ret.upserts[1]

\* C32: every point index_chunks_to_qdrant builds has a payload with text,
\* summary, topics, type (that of its chunk) and sequence_index, and the
\* sequence indexes rise strictly in the order of the input chunks.
C32_PayloadHasTypeAndSequenceIndex ==
    (Indexed /\ ~ret.raised) =>
        /\ \A k \in 1..Len(Upserted) :
               /\ {"text", "summary", "topics", "type", "sequence_index"}
                      \subseteq DOMAIN Upserted[k].payload
               /\ Get(Upserted[k].payload, "type", "") = call.summary_chunks[KthOk(k)].type
        /\ \A i, j \in 1..Len(Upserted) :
               i < j => Get(Upserted[i].payload, "sequence_index", 0)
                            < Get(Upserted[j].payload, "sequence_index", 0)

\* the parts of a collection name: the upload timestamp it starts with, if
\* any, and the name that follows it; the file name of the upload without its
\* suffix
TimestampPrefix(c) ==
    CASE c = "t1_lecture" -> "t1"
      [] c = "t2_lecture" -> "t2"
      [] OTHER -> ""
NameAfterPrefix(c) == IF c \in {"t1_lecture", "t2_lecture", "lecture"} THEN "lecture" ELSE ""
UploadedStem(f) == IF f = "lecture.mp4" THEN "lecture" ELSE ""

\* the collections the run at hand has written points to
WrittenCollections ==
    {c \in {found.txt_collection, found.img_collection} : c # None}

RacedFor(s) ==
    /\ Len(tasks) = 2
    /\ \A i \in 1..2 : tasks[i].session_id = s /\ tasks[i].pc = "finished"
    /\ Registrations > 0
LastWriter == CHOOSE i \in 1..Len(tasks) : tasks[i].order = Registrations

StagesFor(g) ==
    CASE g = "frame_processing_workflow" ->
             <<"supervisor", "extract_frames_from_video", "extract_audio_from_video",
               "transcript_audio_node">>
      [] g = "audio_processing_workflow" ->
             <<"supervisor", "extract_audio_from_video", "transcript_audio_node">>
      [] g = "general_question_workflow" -> <<"supervisor", "general_question_workflow">>
      [] OTHER -> <<"supervisor">>
IsPrefix(s, t) == Len(s) <= Len(t) /\ s = SubSeq(t, 1, Len(s))
RunEnded == trace # <<>> /\ pc \notin GraphPositions \ {"extract_results"}

C36_RegisteredOnlyAfterTranscriptIndexed ==
    [][/\ session_collections' # session_collections =>
              /\ found'.txt_indexed
              /\ Truthy(found'.txt_collection)
              /\ \E s \in Sessions :
                     session_collections' =
                         SetCollection(session_collections, s, found'.txt_collection)
       /\ found'.img_indexed =>
              /\ Truthy(found'.video_name)
              /\ found'.img_collection = found'.video_name]_vars

\* a run has registered its collection although the frame groups were not
\* indexed
C36_Witness ==
    /\ pc = "done"
    /\ found.txt_indexed /\ ~found.img_indexed
    /\ \E s \in Sessions : session_collections[s] = found.txt_collection

\* the edges a run of the main graph can follow: the static ones and the
\* targets the supervisor can name
RunEdges == MainEdges \cup {<<"supervisor", SupervisorGoto(r)>> : r \in Replies}
RunNodes == {e[1] : e \in RunEdges} \cup {e[2] : e \in RunEdges}
RECURSIVE ReachableFrom(_, _)
ReachableFrom(S, k) ==
    IF k = 0 THEN S
    ELSE ReachableFrom(S \cup {e[2] : e \in {d \in RunEdges : d[1] \in S}}, k - 1)
OnCycle(n) ==
    n \in ReachableFrom({e[2] : e \in {d \in RunEdges : d[1] = n}},
                        Cardinality(RunNodes))

\* C37: a run of the main workflow whose calls all return ends; the supervisor
\* is followed by at most three stages, no node is executed twice and no node
\* of the graph lies on a cycle.
C37_RunTerminates ==
    /\ [](/\ Len(trace) <= 4
          /\ \A i, j \in 1..Len(trace) : trace[i] = trace[j] => i = j
          /\ \A n \in RunNodes : ~OnCycle(n))
    /\ (pc = "supervisor") ~> (pc = "extract_results")

\* the longest run: the supervisor and three stages, results being processed
C37_Witness ==
    /\ pc = "process_transcript"
    /\ Len(trace) = 4
    /\ Executed("transcript_audio_node") = 1

\* What the state at the end of a background task shows of a call to a service
\* outside the program that did not succeed: the models were not loaded, a
\* store_message of the upload or of the task raised, or the run did not get
\* frames, audio, transcript and both sets of points out of the routing,
\* extraction, transcription, summarizer, embedding and vector store calls.
ExternalCallFailed ==
    \/ result.error = "Models not loaded"
    \/ Entry.current_step = "Error"
    \/ ~\E i \in 1..Len(chat[task.session_id]) :
            chat[task.session_id][i].content[1] = "Processing video"
    \/ /\ result.success
       /\ \/ trace # StagesFor("frame_processing_workflow")
          \/ ~Truthy(found.video_name)
          \/ ~found.transcript
          \/ ~found.frame_groups
          \/ ~found.txt_indexed
          \/ ~found.img_indexed

\* C38: when the background task of an .mp4 upload is over and no external call
\* has failed, the status of the workflow is completed with progress 100, the
\* collection of the video holds its transcript and frame points and is
\* registered in the session registry.
C38_SucceedingUploadCompletes ==
    (pc = "done" /\ ~ExternalCallFailed) =>
        /\ Entry.status = "completed"
        /\ Entry.progress = 100
        /\ found.txt_indexed /\ found.img_indexed
        /\ found.txt_collection = VideoName(task.file_path)
        /\ found.img_collection = VideoName(task.file_path)
        /\ \E s \in Sessions : session_collections[s] = VideoName(task.file_path)

====
